---- MODULE Spec2Model ----
(***************************************************************************)
(* A model of device_detector's parser core:                               *)
(*   src/device_detector/parser/parser.py          build_version, Parser   *)
(*   src/device_detector/parser/client/browser.py  Browser, Engine         *)
(*                                                                         *)
(* Text.  A Python str is a sequence of symbols.  A symbol is a single     *)
(* character ("7", ".", "_", "/", " ") or a run of letters that the code   *)
(* never looks inside ("Chrome"); '' is <<>>.  Concatenation, split, join, *)
(* replace, strip and prefix search are computed on these sequences.       *)
(*                                                                         *)
(* Dicts.  A Python dict is a function whose DOMAIN is its set of keys;    *)
(* {} is <<>>.  a |= b is Merge(a, b).                                     *)
(*                                                                         *)
(* Objects.  self.ua_data is a reference: ua_obj is the identity of the    *)
(* dict it is bound to and heap maps identities to contents, so that an    *)
(* in-place update (d[k] = v, d |= e) is seen through every reference and  *)
(* a rebinding (self.ua_data = e) is not.                                  *)
(***************************************************************************)
EXTENDS Integers, Sequences, FiniteSets, TLC

VARIABLES
    regex_list,       \* RegexLoader.regex_list of the Browser class
    user_agent,       \* Parser.user_agent
    client_hints,     \* Parser.client_hints: NoHints or a ClientHints object
    ua_obj,           \* identity of the dict bound to Parser.ua_data
    heap,             \* identity -> dict contents
    matched_regex,    \* Parser.matched_regex
    known,            \* Parser.known
    secondary_client, \* Parser.secondary_client
    DDCache,          \* DDCache['user_agents']: ua_hash -> (cache_name -> identity)
    pc,               \* the call the parser is about to make / has returned from
    err,              \* the exception that ended the last call, or "none"
    nparsers,         \* parsers constructed so far
    last,             \* the method that returned last
    details,          \* what the last get_from_cache returned
    cold,             \* history: the record each cache-cold parse() left, per input
    bv_in,            \* build_version: version_str
    bv_trunc,         \* build_version: truncation
    bv_out,           \* build_version: the returned value
    bv_pc             \* build_version: "call" before, "done" after

vars == <<regex_list, user_agent, client_hints, ua_obj, heap, matched_regex, known,
          secondary_client, DDCache, pc, err, nparsers, last, details, cold,
          bv_in, bv_trunc, bv_out, bv_pc>>

parser_vars == <<regex_list, user_agent, client_hints, ua_obj, heap, matched_regex,
                 known, secondary_client, DDCache, pc, err, nparsers, last, details,
                 cold>>

bv_vars == <<bv_in, bv_trunc, bv_out, bv_pc>>

(***************************************************************************)
(* Bounds                                                                  *)
(***************************************************************************)
\* longest version_str handed to build_version (besides the documented ones)
MaxLen == 4
\* parsers constructed in one behaviour
MaxParsers == 2

(***************************************************************************)
(* Text                                                                    *)
(***************************************************************************)
Digits == {"0", "1", "2", "3", "4", "5", "6", "7", "8", "9"}

Min(a, b) == IF a < b THEN a ELSE b

Max(a, b) == IF a > b THEN a ELSE b

\* str.replace(old, new) for one-symbol old and new
Replace(s, old, new) == [i \in 1..Len(s) |-> IF s[i] = old THEN new ELSE s[i]]

\* str.split(sep) for a one-symbol sep: always at least one segment
RECURSIVE Split(_, _)
Split(s, sep) ==
    IF \A i \in 1..Len(s) : s[i] # sep
    THEN <<s>>
    ELSE LET i == CHOOSE k \in 1..Len(s) :
                      s[k] = sep /\ \A j \in 1..(k - 1) : s[j] # sep
         IN  <<SubSeq(s, 1, i - 1)>> \o Split(SubSeq(s, i + 1, Len(s)), sep)

\* sep.join(segments)
RECURSIVE Join(_, _)
Join(segments, sep) ==
    IF Len(segments) = 0 THEN <<>>
    ELSE IF Len(segments) = 1 THEN segments[1]
    ELSE segments[1] \o <<sep>> \o Join(Tail(segments), sep)

\* seq[:n], for negative n too
SliceTo(seq, n) ==
    IF n >= 0 THEN SubSeq(seq, 1, Min(n, Len(seq)))
    ELSE SubSeq(seq, 1, Max(Len(seq) + n, 0))

\* a value handed where a str is expected: a str, or None
Str(s) == [isstr |-> TRUE, val |-> s]

NoneValue == [isstr |-> FALSE, val |-> <<>>]

(***************************************************************************)
(* build_version (parser.py 14-37)                                         *)
(***************************************************************************)
build_version(version_str, truncation) ==
    IF truncation = -1 THEN version_str
    ELSE LET retain_segments == truncation + 1
         IN  IF ~version_str.isstr THEN version_str      \* except AttributeError
             ELSE LET segments == Split(Replace(version_str.val, "_", "."), ".")
                  IN  IF Len(segments) = retain_segments THEN version_str
                      ELSE Str(Join(SliceTo(segments, retain_segments), "."))

(***************************************************************************)
(* Dicts                                                                   *)
(***************************************************************************)
EmptyDict == <<>>

\* a | b
Merge(a, b) == [k \in DOMAIN a \cup DOMAIN b |-> IF k \in DOMAIN b THEN b[k] ELSE a[k]]

\* d.get(k, default)
Get(d, k, default) == IF k \in DOMAIN d THEN d[k] ELSE default

\* d with d[k] = v
Put(d, k, v) == Merge(d, k :> v)

\* {k: v for k, v in d.items() if k != key}
Without(d, key) == [k \in DOMAIN d \ {key} |-> d[k]]

\* bool(d) of a dict
Truthy(d) == DOMAIN d # {}

\* a == b of two dicts
DictEq(a, b) == DOMAIN a = DOMAIN b /\ \A k \in DOMAIN a : a[k] = b[k]

(***************************************************************************)
(* Names and versions that the code or the fixtures spell out              *)
(***************************************************************************)
Chrome == <<"Chrome">>

ChromeMobile == <<"Chrome", " ", "Mobile">>

Chromium == <<"Chromium">>

ChromeWebview == <<"Chrome", " ", "Webview">>

DuckDuckGo == <<"DuckDuckGo", " ", "Privacy", " ", "Browser">>

Iridium == <<"Iridium">>

Vivaldi == <<"Vivaldi">>

\* str.lower() on the letter runs of the model
LowerSym(c) ==
    CASE c = "Chrome"     -> "chrome"
      [] c = "Mobile"     -> "mobile"
      [] c = "Chromium"   -> "chromium"
      [] c = "Webview"    -> "webview"
      [] c = "DuckDuckGo" -> "duckduckgo"
      [] c = "Privacy"    -> "privacy"
      [] c = "Browser"    -> "browser"
      [] c = "Iridium"    -> "iridium"
      [] c = "Vivaldi"    -> "vivaldi"
      [] c = "Widget"     -> "widget"
      [] OTHER            -> c

Lower(s) == [i \in 1..Len(s) |-> LowerSym(s[i])]

(***************************************************************************)
(* Compiled patterns.  A pattern of the model is a literal, optionally     *)
(* followed by one optional capture group over a run of digits, dots and   *)
(* underscores:  lit([\d._]+)?                                             *)
(***************************************************************************)
VersionSyms == Digits \cup {".", "_"}

Regex(lit, group) == [lit |-> lit, group |-> group]

NoMatch == [found |-> FALSE, groups |-> <<>>]

MatchAt(lit, s, i) ==
    /\ i + Len(lit) - 1 <= Len(s)
    /\ SubSeq(s, i, i + Len(lit) - 1) = lit

\* the longest run of version symbols of s that starts at position i
RECURSIVE RunFrom(_, _)
RunFrom(s, i) ==
    IF i <= Len(s) /\ s[i] \in VersionSyms THEN <<s[i]>> \o RunFrom(s, i + 1) ELSE <<>>

\* regex.search(s): the leftmost match and its groups(), or None
Search(regex, s) ==
    IF \E i \in 1..Len(s) : MatchAt(regex.lit, s, i)
    THEN LET i == CHOOSE k \in 1..Len(s) :
                      /\ MatchAt(regex.lit, s, k)
                      /\ \A j \in 1..(k - 1) : ~MatchAt(regex.lit, s, j)
             run == RunFrom(s, i + Len(regex.lit))
         IN  [found  |-> TRUE,
              groups |-> IF regex.group
                         THEN <<IF run = <<>> THEN NoneValue ELSE Str(run)>>
                         ELSE <<>>]
    ELSE NoMatch

\* DATE_VERSION = RegexLazy(r'^202[0-5]'), DATE_VERSION.search(s)
DATE_VERSION(s) ==
    /\ Len(s) >= 4
    /\ SubSeq(s, 1, 3) = <<"2", "0", "2">>
    /\ s[4] \in {"0", "1", "2", "3", "4", "5"}

(***************************************************************************)
(* Extractors (parser/extractors.py is not part of the sources read here;  *)
(* modelled from the specification, section 4.2)                           *)
(***************************************************************************)
\* the template with every placeholder $1 replaced by capture group 1,
\* a group that did not participate giving ''
RECURSIVE Substitute(_, _)
Substitute(template, groups) ==
    IF template = <<>> THEN <<>>
    ELSE LET head == IF Head(template) = "$1"
                     THEN IF Len(groups) >= 1 /\ groups[1].isstr
                          THEN groups[1].val ELSE <<>>
                     ELSE <<Head(template)>>
         IN  head \o Substitute(Tail(template), groups)

\* str.rstrip(chars)
RECURSIVE RStrip(_, _)
RStrip(s, chars) ==
    IF s # <<>> /\ s[Len(s)] \in chars THEN RStrip(SubSeq(s, 1, Len(s) - 1), chars) ELSE s

\* str.lstrip(chars)
RECURSIVE LStrip(_, _)
LStrip(s, chars) ==
    IF s # <<>> /\ s[1] \in chars THEN LStrip(Tail(s), chars) ELSE s

\* NameExtractor(ua_data, groups).extract()
NameExtractor(ua_data, groups) ==
    LStrip(RStrip(Substitute(ua_data["name"], groups), {" "}), {" "})

\* VersionExtractor(ua_data, groups).extract()
VersionExtractor(ua_data, groups) ==
    LET value == RStrip(Replace(Substitute(ua_data["version"], groups), "_", "."),
                        {".", " "})
    IN  IF \E i \in 1..Len(value) : value[i] \in Digits THEN value ELSE <<>>

(***************************************************************************)
(* Rule data, user agents and client hints.  The rule files, settings.py   *)
(* and client_hints.py are external to the two source files; the values    *)
(* below are inputs of the shapes the specification (sections 3 and 6)     *)
(* gives them.                                                             *)
(***************************************************************************)
\* 'engine': {'default': ..., 'versions': {...}} as read from a rule
EngineDict(default, versions) ==
    [isdict |-> TRUE, default |-> default, versions |-> versions, name |-> <<>>]

\* 'engine': name, as set_engine leaves it
EngineName(name) ==
    [isdict |-> FALSE, default |-> <<>>, versions |-> <<>>, name |-> name]

RuleChromeMobile ==
    [regex   |-> Regex(<<"Chrome", " ", "Mobile", "/">>, TRUE),
     name    |-> ChromeMobile,
     version |-> <<"$1">>,
     versions |-> <<[regex |-> Regex(<<"Mobile", "/", "7">>, FALSE), version |-> <<"7">>]>>,
     engine  |-> EngineDict(<<"WebKit">>, <<<<"Blink">>>>)]

RuleChrome ==
    [regex    |-> Regex(<<"Chrome">>, FALSE),
     name     |-> Chrome,
     version  |-> <<>>,
     versions |-> <<[regex |-> Regex(<<"Mobile">>, FALSE), version |-> <<"1", "0">>],
                    [regex |-> Regex(<<"Chrome">>, FALSE), version |-> <<"9">>]>>,
     engine   |-> EngineDict(<<"WebKit">>, <<>>)]

RuleVivaldi ==
    [regex    |-> Regex(<<"Vivaldi", "/">>, TRUE),
     name     |-> Vivaldi,
     version  |-> <<"$1">>,
     versions |-> <<[regex |-> Regex(<<"Vivaldi", "/", "8">>, FALSE),
                     version |-> <<"beta">>],
                    [regex |-> Regex(<<"7", "_">>, FALSE),
                     version |-> <<"7", "_", "0">>]>>]

RuleWidget ==
    [regex    |-> Regex(<<"Widget", "/">>, FALSE),
     version  |-> <<"1">>,
     versions |-> <<[regex |-> Regex(<<"Widget">>, FALSE), version |-> <<"5">>]>>]

\* the rule list in its file order, and with its first two rules swapped
RuleLists ==
    {<<RuleChromeMobile, RuleChrome, RuleVivaldi, RuleWidget>>,
     <<RuleChrome, RuleChromeMobile, RuleVivaldi, RuleWidget>>}

UserAgents ==
    <<<<"Chrome", " ", "Mobile", "/", "7", ".", "1">>,
      <<"Vivaldi", "/", "7", "_", "1">>,
      <<"Vivaldi", "/", "8">>,
      <<"Widget", "/", "9">>,
      <<"curl">>>>

\* the content hash the caller hands to Parser.__init__ with the text
Hash(ua) == CHOOSE i \in 1..Len(UserAgents) : UserAgents[i] = ua

\* self.cache_name of the Browser class
cache_name == "browser"

NoHints == [present |-> FALSE, data |-> EmptyDict, is_browser |-> FALSE]

\* a ClientHints object: client_data() and client_is_browser()
Hints(data, is_browser) == [present |-> TRUE, data |-> data, is_browser |-> is_browser]

ClientHintsSet ==
    {NoHints,
     Hints([name |-> DuckDuckGo, version |-> <<"7", ".", "1">>], TRUE),
     Hints([name |-> DuckDuckGo, version |-> <<"7", ".", "1">>,
            app_id |-> <<"com.duckduckgo.mobile.android">>], TRUE),
     Hints([name |-> Chromium, version |-> <<"2", "0", "2", "4", ".", "0", "3">>], TRUE),
     Hints([name |-> Chromium, version |-> <<"2", "0", "2", "6", ".", "0", "1">>], TRUE),
     Hints([name |-> Chromium, version |-> <<"9">>], TRUE),
     Hints([name |-> Chrome, version |-> <<"9">>], TRUE),
     Hints([name |-> <<>>, version |-> <<"7", ".", "1">>,
            app_id |-> <<"com.example.app">>], FALSE)}

\* BROWSER_TO_ABBREV.get(key, default)
BROWSER_TO_ABBREV(key, default) ==
    CASE key = Lower(Chrome)        -> <<"CH">>
      [] key = Lower(ChromeMobile)  -> <<"CM">>
      [] key = Lower(Chromium)      -> <<"CR">>
      [] key = Lower(ChromeWebview) -> <<"CV">>
      [] key = Lower(Vivaldi)       -> <<"VI">>
      [] key = Lower(Iridium)       -> <<"I1">>
      [] key = Lower(DuckDuckGo)    -> <<"DD">>
      [] OTHER                      -> default

\* FAMILY_FROM_ABBREV.get(key, default)
FAMILY_FROM_ABBREV(key, default) ==
    IF key \in {<<"CH">>, <<"CM">>, <<"CR">>, <<"CV">>, <<"VI">>, <<"I1">>}
    THEN Chrome ELSE default

CHECK_PAIRS == {ChromeMobile, ChromeWebview}

(***************************************************************************)
(* Parser (parser.py)                                                      *)
(***************************************************************************)
\* Parser._parse: self is [ua_data, matched_regex, known]
RECURSIVE _parse_from(_, _, _, _)
_parse_from(i, rules, ua, self) ==
    IF i > Len(rules) THEN self
    ELSE LET matched == Search(rules[i]["regex"], ua)
         IN  IF matched.found
             THEN [ua_data       |-> Merge(self.ua_data, Without(rules[i], "regex")),
                   matched_regex |-> matched,
                   known         |-> TRUE]
             ELSE _parse_from(i + 1, rules, ua, self)

\* the loop without its return: every matching rule is merged, the last one winning
RECURSIVE _parse_all_from(_, _, _, _)
_parse_all_from(i, rules, ua, self) ==
    IF i > Len(rules) THEN self
    ELSE LET matched == Search(rules[i]["regex"], ua)
         IN  _parse_all_from(i + 1, rules, ua,
                 IF matched.found
                 THEN [ua_data       |-> Merge(self.ua_data, Without(rules[i], "regex")),
                       matched_regex |-> matched,
                       known         |-> TRUE]
                 ELSE self)

_parse_all(rules, ua, self) == _parse_all_from(1, rules, ua, self)

_parse(rules, ua, self) == _parse_from(1, rules, ua, self)

\* the loop without its return: the last matching sub-rule wins
extract_version_last(ua_data, ua) ==
    LET versions == Get(ua_data, "versions", <<>>)
        popped   == Without(ua_data, "versions")
        hits     == {i \in 1..Len(versions) : Search(versions[i]["regex"], ua).found}
    IN  IF hits = {} THEN popped
        ELSE LET final == CHOOSE i \in hits : \A j \in hits : i >= j
             IN  Put(popped, "version", versions[final]["version"])

\* Parser.extract_version
extract_version(ua_data, ua) ==
    LET versions == Get(ua_data, "versions", <<>>)
        popped   == Without(ua_data, "versions")
        hits     == {i \in 1..Len(versions) : Search(versions[i]["regex"], ua).found}
    IN  IF hits = {} THEN popped
        ELSE LET first == CHOOSE i \in hits : \A j \in hits : i <= j
             IN  Put(popped, "version", versions[first]["version"])

\* Parser.set_details
Parser_set_details(ua_data, matched) ==
    LET groups == IF matched.found THEN matched.groups ELSE <<>>
        named  == IF groups # <<>> /\ "name" \in DOMAIN ua_data
                  THEN Put(ua_data, "name", NameExtractor(ua_data, groups))
                  ELSE ua_data
        versd  == IF groups # <<>> /\ "version" \in DOMAIN named
                  THEN Put(named, "version", VersionExtractor(named, groups))
                  ELSE named
    IN  \* no version should be considered valid if the name can't be parsed
        IF Get(versd, "name", <<>>) = <<>> /\ Get(versd, "version", <<>>) # <<>>
        THEN Put(versd, "version", <<>>)
        ELSE versd

(***************************************************************************)
(* Browser (client/browser.py)                                             *)
(***************************************************************************)
\* BaseClientParser.set_data_from_client_hints (client/__init__.py is not among
\* the sources): every client-hint field that is present overwrites the record's
Base_set_data_from_client_hints(ua_data, ch) ==
    IF ~ch.present THEN ua_data
    ELSE Merge(ua_data,
               [k \in {f \in DOMAIN ch.data : ch.data[f] # <<>>} |-> ch.data[k]])

\* the DuckDuckGo branch with the version left as merged
duckduckgo_keep_version(merged, ch_version) ==
    Merge(merged, [engine_version |-> ch_version])

\* Browser.set_data_from_client_hints 128-129, on the record super() left
duckduckgo_data(merged, ch_version) ==
    Merge(merged, [version |-> <<>>, engine_version |-> ch_version])

\* Browser.set_data_from_client_hints: the dict self.ua_data ends bound to, and
\* whether it is another object (self.ua_data = ch_data) or the same one updated
set_data_from_client_hints(ua_data, ch) ==
    IF ~ch.present THEN [rebound |-> FALSE, data |-> ua_data]
    ELSE
    LET ch_data       == ch.data
        ch_name       == Get(ch_data, "name", <<>>)
        ch_version    == Get(ch_data, "version", <<>>)
        ua_name       == Get(ua_data, "name", <<>>)
        ua_short_name == Get(ua_data, "short_name", <<>>)
        merged        == Base_set_data_from_client_hints(ua_data, ch)
    IN  IF ~Truthy(ua_data) /\ ch.is_browser
        THEN [rebound |-> TRUE, data |-> ch_data]
        ELSE [rebound |-> FALSE, data |->
             IF Get(ch_data, "app_id", <<>>) # <<>>
             THEN Merge(ua_data, ch_data)
             ELSE IF ch_name = DuckDuckGo
             THEN duckduckgo_data(merged, ch_version)
             ELSE IF /\ ua_name # <<>>
                     /\ ch_name \in {Chromium, ChromeWebview}
                     /\ ua_short_name \notin {<<"CR">>, <<"CV">>, <<"AN">>}
             THEN IF DATE_VERSION(ch_version)
                  THEN Merge(ua_data, [name |-> Iridium, short_name |-> <<"I1">>])
                  ELSE Merge(ua_data, [name       |-> ua_name,
                                       version    |-> Get(ua_data, "version", <<>>),
                                       short_name |-> ua_short_name])
             ELSE \* Fix mobile browser names e.g. Chrome => Chrome Mobile
                  IF ch_name \o <<" ", "Mobile">> = ua_name
                  THEN Merge(merged, [name |-> ua_name, short_name |-> ua_short_name])
                  ELSE merged]

\* the first position from i on that holds no space
RECURSIVE SkipSpaces(_, _)
SkipSpaces(s, i) == IF i <= Len(s) /\ s[i] = " " THEN SkipSpaces(s, i + 1) ELSE i

\* the longest run of digits and dots of s that starts at position i with a digit
RECURSIVE DotRunFrom(_, _)
DotRunFrom(s, i) ==
    IF i <= Len(s) /\ s[i] \in Digits \cup {"."} THEN <<s[i]>> \o DotRunFrom(s, i + 1) ELSE <<>>

DigitRunFrom(s, i) == IF i <= Len(s) /\ s[i] \in Digits THEN DotRunFrom(s, i) ELSE <<>>

\* EngineVersion.parse: the leftmost  <engine>\s*/?\s*<version>  of the user agent,
\* letter case ignored; of the matched text, what follows its '/', or ''
EngineVersion_parse(ua, engine) ==
    IF engine = <<>> THEN <<>>
    ELSE LET slash(i)   == SkipSpaces(ua, i + Len(engine))
             hasSlash(i) == slash(i) <= Len(ua) /\ ua[slash(i)] = "/"
             digits(i)  == SkipSpaces(ua, IF hasSlash(i) THEN slash(i) + 1 ELSE slash(i))
             at(i)      == /\ MatchAt(Lower(engine), Lower(ua), i)
                           /\ DigitRunFrom(ua, digits(i)) # <<>>
         IN  IF \E i \in 1..Len(ua) : at(i)
             THEN LET i == CHOOSE k \in 1..Len(ua) : at(k) /\ \A j \in 1..(k - 1) : ~at(j)
                  IN  IF hasSlash(i)
                      THEN SubSeq(ua, slash(i) + 1, digits(i) - 1)
                               \o DigitRunFrom(ua, digits(i))
                      ELSE <<>>                      \* except IndexError
             ELSE <<>>

\* the rules of upstream/client/browser_engine.yml (Engine.fixture_files)
EngineRules == <<[regex |-> Regex(<<"WebKit">>, FALSE), name |-> <<"WebKit">>]>>

\* Engine._parse, as Engine(...).parse().ua_data shows it
Engine_parse(ua) ==
    LET self == _parse(EngineRules, ua,
                       [ua_data |-> EmptyDict, matched_regex |-> NoMatch, known |-> FALSE])
    IN  IF "name" \in DOMAIN self.ua_data
        THEN Put(self.ua_data, "engine_version",
                 EngineVersion_parse(ua, self.ua_data["name"]))
        ELSE self.ua_data

\* bool(self.ua_data.get('engine', ''))
HasEngine(ua_data) ==
    /\ "engine" \in DOMAIN ua_data
    /\ (ua_data["engine"].isdict \/ ua_data["engine"].name # <<>>)

\* Browser.set_engine: the record it leaves and the exception it ends with
set_engine(ua_data, ch_client_data, ua) ==
    IF ~HasEngine(ua_data) THEN [data |-> ua_data, err |-> "none"]
    ELSE
    LET browser      == Get(ua_data, "name", <<>>)
        abbreviation == BROWSER_TO_ABBREV(Lower(browser), browser)
        shortened    == Merge(ua_data,
                              [short_name |-> abbreviation,
                               family     |-> FAMILY_FROM_ABBREV(abbreviation, browser)])
        client_version == IF Get(ch_client_data, "version", <<>>) # <<>>
                          THEN ch_client_data["version"]
                          ELSE Get(shortened, "version", <<>>)
    IN  IF "engine" \notin DOMAIN shortened
        THEN [data |-> Put(shortened, "engine", Engine_parse(ua)), err |-> "none"]
        ELSE LET engine == shortened["engine"]
             IN  IF ~engine.isdict
                 THEN \* str has no .get
                      [data |-> shortened, err |-> "AttributeError"]
                 ELSE IF engine.versions = <<>>
                 THEN [data |-> shortened, err |-> "none"]
                 ELSE [data |-> Merge(shortened,
                                  [engine         |-> EngineName(engine.versions[Len(engine.versions)]),
                                   engine_version |-> client_version]),
                       err  |-> "none"]

\* characters in a symbol
CharLen(c) ==
    CASE c \in {"Chrome", "Mobile", "Widget"} -> 6
      [] c = "Vivaldi"                        -> 7
      [] c = "curl"                           -> 4
      [] OTHER                                -> 1

\* Parser.name_version_pairs (not among the sources): the "<token>/<version>"
\* pairs of the text, as <<name, version>>
name_version_pairs(ua) ==
    {<<<<ua[i]>>, RunFrom(ua, i + 2)>> :
        i \in {k \in 1..(Len(ua) - 2) :
                 /\ ua[k] \notin VersionSyms \cup {"/", " "}
                 /\ ua[k + 1] = "/"
                 /\ RunFrom(ua, k + 2) # <<>>}}

IsInteresting(pair) ==
    /\ CharLen(pair[1][1]) > 2
    /\ LowerSym(pair[1][1]) \notin {"build", "version"}

\* Browser.has_interesting_pair
has_interesting_pair(ua) == \E pair \in name_version_pairs(ua) : IsInteresting(pair)

\* NameVersionExtractor(...).parse().ua_data and WholeNameExtractor(...).parse().ua_data
\* (not among the sources; specification, section 4.2)
NameVersionExtractor(ua) ==
    LET good == {pair \in name_version_pairs(ua) : IsInteresting(pair)}
    IN  IF good = {} THEN EmptyDict
        ELSE LET pair == CHOOSE q \in good : TRUE
             IN  [name |-> pair[1], version |-> pair[2], type |-> <<"generic">>]

WholeNameExtractor(ua) ==
    IF ua = <<>> THEN EmptyDict
    ELSE [name |-> ua, version |-> <<>>, type |-> <<"generic">>]

\* Browser.get_secondary_client_data, parsed being extractor(...).parse().ua_data
get_secondary_client_data(ua_data, parsed) ==
    IF Truthy(parsed)
    THEN [secondary_client |-> parsed, data |-> Put(ua_data, "secondary_client", parsed)]
    ELSE [secondary_client |-> EmptyDict, data |-> ua_data]

\* Browser.check_secondary_client_data
check_secondary_client_data(ua_data, secondary, ua) ==
    IF Get(ua_data, "name", <<>>) \in CHECK_PAIRS
    THEN IF has_interesting_pair(ua)
         THEN get_secondary_client_data(ua_data, NameVersionExtractor(ua))
         ELSE get_secondary_client_data(ua_data, WholeNameExtractor(ua))
    ELSE [secondary_client |-> secondary, data |-> ua_data]

(***************************************************************************)
(* The parser object and the cache                                         *)
(***************************************************************************)
\* self.ua_data
ua_data == heap[ua_obj]

\* self.ua_hash
ua_hash == Hash(user_agent)

\* self.ch_client_data (Parser.__init__)
ch_client_data == IF client_hints.present THEN client_hints.data ELSE EmptyDict

\* the dict objects the cache refers to
CacheRefs == {DDCache[h][d] : h \in DOMAIN DDCache, d \in {cache_name}} \ {0}

\* the keys (ua_hash, cache_name) the cache holds a record for
CacheKeys == {h \in DOMAIN DDCache : cache_name \in DOMAIN DDCache[h]}

\* the record the cache holds for ua_hash h
Cached(h) == heap[DDCache[h][cache_name]]

\* the identity of a newly created dict
FreshId(used) == CHOOSE i \in 1..(Cardinality(used) + 1) :
                     i \notin used /\ \A j \in 1..(i - 1) : j \in used

\* the inputs of a parse as a key of the history
HintsId(ch) ==
    CASE ~ch.present                      -> <<"none">>
      [] "app_id" \in DOMAIN ch.data      -> ch.data["app_id"]
      [] OTHER                            -> ch.data["name"] \o ch.data["version"]

InputKey == <<ua_hash, HintsId(client_hints)>>

NoDetails == [none |-> TRUE, val |-> EmptyDict]

\* self.ua_data[...] = ..., self.ua_data |= ...: the object is updated in place
UpdateInPlace(data) ==
    /\ heap' = [heap EXCEPT ![ua_obj] = data]
    /\ UNCHANGED ua_obj

\* self.ua_data = data: the attribute is bound to another dict
Rebind(data) ==
    LET id == FreshId(DOMAIN heap)
    IN  /\ ua_obj' = id
        /\ heap' = (id :> data) @@ heap

InitParser ==
    /\ regex_list \in RuleLists
    /\ user_agent \in {UserAgents[i] : i \in 1..Len(UserAgents)}
    /\ client_hints \in ClientHintsSet
    /\ ua_obj = 1
    /\ heap = (1 :> EmptyDict)
    /\ matched_regex = NoMatch
    /\ known = FALSE
    /\ secondary_client = EmptyDict
    /\ DDCache = EmptyDict
    /\ pc = "parse"
    /\ err = "none"
    /\ nparsers = 1
    /\ last = "__init__"
    /\ details = NoDetails
    /\ cold = EmptyDict

\* Parser.__init__ (parser.py 63-86) of a further parser; the dicts that neither
\* the cache nor the new parser refers to are gone
Construct(ua, ch) ==
    /\ pc \in {"done", "post"}
    /\ nparsers < MaxParsers
    /\ LET id == FreshId(CacheRefs)
       IN  /\ ua_obj' = id
           /\ heap' = [i \in CacheRefs \cup {id} |-> IF i = id THEN EmptyDict ELSE heap[i]]
    /\ user_agent' = ua
    /\ client_hints' = ch
    /\ matched_regex' = NoMatch
    /\ known' = FALSE
    /\ secondary_client' = EmptyDict
    /\ pc' = "parse"
    /\ err' = "none"
    /\ nparsers' = nparsers + 1
    /\ last' = "__init__"
    /\ details' = NoDetails
    /\ UNCHANGED <<regex_list, DDCache, cold, bv_vars>>

\* parse() 113-115: get_from_cache (88-93) and the return on a cached record
GetFromCache ==
    /\ pc = "parse"
    /\ IF ua_hash \in DOMAIN DDCache
       THEN LET found == cache_name \in DOMAIN DDCache[ua_hash]
                value == IF found THEN Cached(ua_hash) ELSE EmptyDict
            IN  /\ details' = [none |-> ~found, val |-> value]
                /\ pc' = IF found /\ Truthy(value) THEN "done" ELSE "_parse"
                /\ last' = IF found /\ Truthy(value) THEN "parse" ELSE "get_from_cache"
                /\ UNCHANGED DDCache
       ELSE \* except KeyError
            /\ DDCache' = Put(DDCache, ua_hash, EmptyDict)
            /\ details' = [none |-> FALSE, val |-> EmptyDict]
            /\ pc' = "_parse"
            /\ last' = "get_from_cache"
    /\ err' = "none"
    /\ UNCHANGED <<regex_list, user_agent, client_hints, ua_obj, heap, matched_regex,
                   known, secondary_client, nparsers, cold, bv_vars>>

\* parse() 117: _parse (99-107)
ParseRules ==
    /\ pc = "_parse"
    /\ LET self == _parse(regex_list, user_agent,
                          [ua_data |-> ua_data, matched_regex |-> matched_regex,
                           known |-> known])
       IN  /\ UpdateInPlace(self.ua_data)
           /\ matched_regex' = self.matched_regex
           /\ known' = self.known
    /\ pc' = "extract_version"
    /\ last' = "_parse"
    /\ err' = "none"
    /\ UNCHANGED <<regex_list, user_agent, client_hints, secondary_client, DDCache,
                   nparsers, details, cold, bv_vars>>

\* extract_details() 126: extract_version (131-140)
ExtractVersion ==
    /\ pc = "extract_version"
    /\ UpdateInPlace(extract_version(ua_data, user_agent))
    /\ pc' = "set_details"
    /\ last' = "extract_version"
    /\ err' = "none"
    /\ UNCHANGED <<regex_list, user_agent, client_hints, matched_regex, known,
                   secondary_client, DDCache, nparsers, details, cold, bv_vars>>

\* Browser.set_details 100: Parser.set_details (142-158)
SetDetails ==
    /\ pc = "set_details"
    /\ UpdateInPlace(Parser_set_details(ua_data, matched_regex))
    /\ pc' = "set_data_from_client_hints"
    /\ last' = "set_details"
    /\ err' = "none"
    /\ UNCHANGED <<regex_list, user_agent, client_hints, matched_regex, known,
                   secondary_client, DDCache, nparsers, details, cold, bv_vars>>

\* Browser.set_data_from_client_hints (104-158) on the parser, handing over to next
DoSetDataFromClientHints(next) ==
    /\ LET r == set_data_from_client_hints(ua_data, client_hints)
       IN  IF r.rebound THEN Rebind(r.data) ELSE UpdateInPlace(r.data)
    /\ pc' = next
    /\ last' = "set_data_from_client_hints"
    /\ err' = "none"
    /\ UNCHANGED <<regex_list, user_agent, client_hints, matched_regex, known,
                   secondary_client, DDCache, nparsers, details, cold, bv_vars>>

\* the reconciliation step of parse(), after the extraction (specification,
\* sections 2 and 4.3)
SetDataFromClientHints ==
    /\ pc = "set_data_from_client_hints"
    /\ DoSetDataFromClientHints("set_engine")

\* set_data_from_client_hints called on the parser after parse() has returned
CallSetDataFromClientHints ==
    /\ pc \in {"done", "post"}
    /\ DoSetDataFromClientHints("post")

\* Browser.set_engine (163-201) on the parser, handing over to next
DoSetEngine(next) ==
    /\ LET r == set_engine(ua_data, ch_client_data, user_agent)
       IN  /\ UpdateInPlace(r.data)
           /\ err' = r.err
    /\ pc' = next
    /\ last' = "set_engine"
    /\ UNCHANGED <<regex_list, user_agent, client_hints, matched_regex, known,
                   secondary_client, DDCache, nparsers, details, cold, bv_vars>>

\* Browser.set_details 101
SetEngine ==
    /\ pc = "set_engine"
    /\ DoSetEngine("check_secondary_client_data")

\* set_engine called on the parser after parse() has returned
CallSetEngine ==
    /\ pc \in {"done", "post"}
    /\ DoSetEngine("post")

\* Browser.check_secondary_client_data (206-218), from Browser.set_details 102
CheckSecondaryClientData ==
    /\ pc = "check_secondary_client_data"
    /\ LET r == check_secondary_client_data(ua_data, secondary_client, user_agent)
       IN  /\ UpdateInPlace(r.data)
           /\ secondary_client' = r.secondary_client
    /\ pc' = "add_to_cache"
    /\ last' = "check_secondary_client_data"
    /\ err' = "none"
    /\ UNCHANGED <<regex_list, user_agent, client_hints, matched_regex, known,
                   DDCache, nparsers, details, cold, bv_vars>>

\* Browser.get_secondary_client_data (220-238) called on the parser after parse()
\* has returned, with either extractor
CallGetSecondaryClientData(whole) ==
    /\ pc \in {"done", "post"}
    /\ LET parsed == IF whole THEN WholeNameExtractor(user_agent)
                     ELSE NameVersionExtractor(user_agent)
           r == get_secondary_client_data(ua_data, parsed)
       IN  /\ UpdateInPlace(r.data)
           /\ secondary_client' = r.secondary_client
    /\ pc' = "post"
    /\ last' = "get_secondary_client_data"
    /\ err' = "none"
    /\ UNCHANGED <<regex_list, user_agent, client_hints, matched_regex, known,
                   DDCache, nparsers, details, cold, bv_vars>>

\* add_to_cache (95-97): from extract_details() 128, or called on a new parser
AddToCache ==
    /\ pc \in {"add_to_cache", "parse"}
    /\ IF ua_hash \in DOMAIN DDCache
       THEN /\ DDCache' = [DDCache EXCEPT ![ua_hash] = Put(@, cache_name, ua_obj)]
            /\ err' = "none"
            /\ pc' = IF pc = "add_to_cache" THEN "done" ELSE pc
            /\ cold' = IF /\ pc = "add_to_cache"
                          /\ ua_hash \notin CacheKeys
                          /\ InputKey \notin DOMAIN cold
                       THEN Put(cold, InputKey, ua_data)
                       ELSE cold
       ELSE \* DDCache['user_agents'][self.ua_hash] raises
            /\ err' = "KeyError"
            /\ UNCHANGED <<DDCache, pc, cold>>
    /\ last' = "add_to_cache"
    /\ UNCHANGED <<regex_list, user_agent, client_hints, ua_obj, heap, matched_regex,
                   known, secondary_client, nparsers, details, bv_vars>>

Init ==
    /\ InitParser
    /\ bv_in = NoneValue
    /\ bv_trunc = 0
    /\ bv_out = NoneValue
    /\ bv_pc = "off"

\* one parser: parse(), then calls on it
Next ==
    \/ GetFromCache
    \/ ParseRules
    \/ ExtractVersion
    \/ SetDetails
    \/ SetDataFromClientHints
    \/ SetEngine
    \/ CheckSecondaryClientData
    \/ AddToCache
    \/ CallSetDataFromClientHints
    \/ CallSetEngine
    \/ \E whole \in BOOLEAN : CallGetSecondaryClientData(whole)

Spec == Init /\ [][Next]_vars

\* parsers constructed one after the other over the same DDCache, each running parse()
NextCache ==
    \/ \E i \in 1..Len(UserAgents), ch \in ClientHintsSet : Construct(UserAgents[i], ch)
    \/ GetFromCache
    \/ ParseRules
    \/ ExtractVersion
    \/ SetDetails
    \/ SetDataFromClientHints
    \/ SetEngine
    \/ CheckSecondaryClientData
    \/ AddToCache

SpecCache == Init /\ [][NextCache]_vars

(***************************************************************************)
(* build_version on its own                                                *)
(***************************************************************************)
VersionAlphabet == {"1", "0", ".", "_"}

\* '10.0.16299.371' and '10' of the docstring
DocVersion == <<"1", "0", ".", "0", ".", "1", "6", "2", "9", "9", ".", "3", "7", "1">>

DocShort == <<"1", "0">>

VersionInputs ==
    {Str(s) : s \in UNION {[1..k -> VersionAlphabet] : k \in 0..MaxLen}}
        \cup {Str(DocVersion), Str(DocShort), NoneValue}

Truncations == {-1, 0, 1, 2}

InitVersion ==
    /\ regex_list = CHOOSE r \in RuleLists : TRUE
    /\ user_agent = UserAgents[1]
    /\ client_hints = NoHints
    /\ ua_obj = 1
    /\ heap = (1 :> EmptyDict)
    /\ matched_regex = NoMatch
    /\ known = FALSE
    /\ secondary_client = EmptyDict
    /\ DDCache = EmptyDict
    /\ pc = "off"
    /\ err = "none"
    /\ nparsers = 1
    /\ last = "__init__"
    /\ details = NoDetails
    /\ cold = EmptyDict
    /\ bv_in \in VersionInputs
    /\ bv_trunc \in Truncations
    /\ bv_out = NoneValue
    /\ bv_pc = "call"

BuildVersion ==
    /\ bv_pc = "call"
    /\ bv_out' = build_version(bv_in, bv_trunc)
    /\ bv_pc' = "done"
    /\ UNCHANGED <<bv_in, bv_trunc, parser_vars>>

NextVersion == BuildVersion

SpecVersion == InitVersion /\ [][NextVersion]_vars

(***************************************************************************)
(* Properties                                                              *)
(***************************************************************************)
\* Parser.name() and Parser.version() of a record
Name(d) == Get(d, "name", <<>>)

Version(d) == Get(d, "version", <<>>)

\* the rules of regex_list whose pattern is found in the user agent
Hits == {i \in 1..Len(regex_list) : \E k \in 1..Len(user_agent) :
             MatchAt(regex_list[i]["regex"].lit, user_agent, k)}

FirstHit == CHOOSE i \in Hits : \A j \in Hits : i <= j

\* the version-condition sub-rules of the first matching rule that are found in
\* the user agent
SubRules == IF Hits = {} THEN <<>> ELSE Get(regex_list[FirstHit], "versions", <<>>)

SubHits == {i \in 1..Len(SubRules) : \E k \in 1..Len(user_agent) :
                MatchAt(SubRules[i]["regex"].lit, user_agent, k)}

FixedVersion == SubRules[CHOOSE i \in SubHits : \A j \in SubHits : i <= j]["version"]

\* a literal version that normalisation leaves as it is
IsNormalVersion(v) ==
    /\ \E i \in 1..Len(v) : v[i] \in Digits
    /\ \A i \in 1..Len(v) : v[i] \notin {"_", "$1"}
    /\ v[Len(v)] \notin {".", " "}

\* C1: for the same user agent, hash, client hints and rules, parse() leaves the
\* parser with the record that the cache-cold parse of that input left, also when
\* the cache already held an entry for the key.
C1_SameRecordColdOrWarm ==
    (pc = "done" /\ InputKey \in DOMAIN cold) => DictEq(ua_data, cold[InputKey])

\* C2: the record a parse produces never has a non-empty version next to an empty
\* or missing name.
C2_NoVersionWithoutName ==
    (pc = "done" /\ last = "add_to_cache") =>
        (Version(ua_data) # <<>> => Name(ua_data) # <<>>)

\* the text before the first '.' or '_'
LeadingSegment(s) ==
    IF \A i \in 1..Len(s) : s[i] \notin {".", "_"} THEN s
    ELSE SubSeq(s, 1, (CHOOSE k \in 1..Len(s) :
                          /\ s[k] \in {".", "_"}
                          /\ \A j \in 1..(k - 1) : s[j] \notin {".", "_"}) - 1)

\* C3: build_version(v, 1) is the leading segment of v, and build_version(v, -1)
\* is v.
C3_BuildVersion ==
    bv_pc = "done" =>
        /\ (bv_trunc = 1 /\ bv_in.isstr) => bv_out = Str(LeadingSegment(bv_in.val))
        /\ bv_trunc = -1 => bv_out = bv_in

\* C4: after _parse the record holds exactly the fields (all but the pattern) of
\* the first rule, in list order, whose pattern is found in the user agent, and
\* known is true; when no rule matches the record is empty and known is false.
C4_FirstMatchWins ==
    last = "_parse" =>
        IF Hits = {}
        THEN ua_data = EmptyDict /\ ~known
        ELSE DictEq(ua_data, Without(regex_list[FirstHit], "regex")) /\ known

\* C4 witness: two rules match the text, and the record is the earlier one's
C4_Witness ==
    /\ last = "_parse"
    /\ Cardinality(Hits) >= 2
    /\ \E j \in Hits : j # FirstHit /\ Name(regex_list[j]) # Name(ua_data)
    /\ Name(ua_data) = Name(regex_list[FirstHit])

\* a version that begins with a four-digit year 2020..2029
IsYearVersion(v) ==
    Len(v) >= 4 /\ SubSeq(v, 1, 3) = <<"2", "0", "2">> /\ v[4] \in Digits

\* C5: set_data_from_client_hints on a record with a name and a short_name outside
\* {CR, CV, AN}, the hints reporting Chromium with a version that begins with a
\* year 2020..2029, leaves name Iridium and short_name I1.
C5_YearVersionedFork ==
    [][(/\ last' = "set_data_from_client_hints"
        /\ Name(ua_data) # <<>>
        /\ Get(ua_data, "short_name", <<>>) \notin {<<"CR">>, <<"CV">>, <<"AN">>}
        /\ client_hints.present
        /\ Name(client_hints.data) = Chromium
        /\ IsYearVersion(Version(client_hints.data)))
       => (/\ Name(heap'[ua_obj']) = Iridium
           /\ Get(heap'[ua_obj'], "short_name", <<>>) = <<"I1">>)]_vars

\* C6 as stated: after set_data_from_client_hints on the record of a matched rule,
\* hints named "DuckDuckGo Privacy Browser" with version v leave that name, version
\* '' and engine_version v.
C6_DuckDuckGo ==
    (/\ last = "set_data_from_client_hints"
     /\ known
     /\ client_hints.present
     /\ Name(client_hints.data) = DuckDuckGo)
    => (/\ Name(ua_data) = DuckDuckGo
        /\ "version" \in DOMAIN ua_data /\ ua_data["version"] = <<>>
        /\ Get(ua_data, "engine_version", <<>>) = Version(client_hints.data))

\* C6 amended: the same, for hints that carry no app_id.
C6_DuckDuckGoNoAppId ==
    (/\ last = "set_data_from_client_hints"
     /\ known
     /\ client_hints.present
     /\ Get(client_hints.data, "app_id", <<>>) = <<>>
     /\ Name(client_hints.data) = DuckDuckGo)
    => (/\ Name(ua_data) = DuckDuckGo
        /\ "version" \in DOMAIN ua_data /\ ua_data["version"] = <<>>
        /\ Get(ua_data, "engine_version", <<>>) = Version(client_hints.data))

\* C6 witness: a matched rule gave a version, and the hints' own version went to
\* engine_version
C6_Witness ==
    /\ last = "set_data_from_client_hints"
    /\ pc = "set_engine"
    /\ known
    /\ client_hints.present
    /\ Get(client_hints.data, "app_id", <<>>) = <<>>
    /\ Name(client_hints.data) = DuckDuckGo
    /\ Name(regex_list[FirstHit]) = ChromeMobile
    /\ Get(ua_data, "engine_version", <<>>) = <<"7", ".", "1">>

\* C7: add_to_cache completes without error, whether or not the cache has an entry
\* for the hash, and get_from_cache then finds the record under (ua_hash, cache_name).
C7_CacheRoundTrip ==
    last = "add_to_cache" =>
        /\ err = "none"
        /\ ua_hash \in CacheKeys
        /\ DDCache[ua_hash][cache_name] = ua_obj

\* C8: set_engine on a record with a name and no engine leaves short_name, family
\* and engine filled in.
C8_EngineFallback ==
    [][(/\ last' = "set_engine"
        /\ Name(ua_data) # <<>>
        /\ ~HasEngine(ua_data))
       => (/\ {"short_name", "family"} \subseteq DOMAIN heap'[ua_obj']
           /\ HasEngine(heap'[ua_obj']))]_vars

\* C9 as stated: when a sub-rule of the matched rule is found in the user agent, the
\* fixed version of the first such sub-rule is the version after set_details.
C9_VersionCondition ==
    (last = "set_details" /\ SubHits # {}) => Version(ua_data) = FixedVersion

\* C9 amended: it is the version after extract_version; after set_details it still
\* is, given a non-empty name and, when the main pattern has capture groups, a fixed
\* version in normal form; with an empty or missing name the version is ''.
C9_VersionConditionNamed ==
    /\ (last = "extract_version" /\ SubHits # {}) => Version(ua_data) = FixedVersion
    /\ (last = "set_details" /\ SubHits # {}) =>
           /\ (/\ Name(ua_data) # <<>>
               /\ (matched_regex.groups = <<>> \/ IsNormalVersion(FixedVersion)))
                  => Version(ua_data) = FixedVersion
           /\ Name(ua_data) = <<>> => Version(ua_data) = <<>>

\* C9 witness: capture groups, several sub-rules found, the first one's version kept
C9_Witness ==
    /\ last = "set_details"
    /\ Cardinality(SubHits) >= 2
    /\ Name(ua_data) # <<>>
    /\ Version(ua_data) = FixedVersion
    /\ FixedVersion # <<>>

\* C10: a record the cache holds changes only by an add_to_cache.
C10_CachedRecordsFrozen ==
    [][\A h \in CacheKeys :
          last' # "add_to_cache" =>
              /\ h \in DOMAIN DDCache'
              /\ cache_name \in DOMAIN DDCache'[h]
              /\ DictEq(heap'[DDCache'[h][cache_name]], Cached(h))]_vars

====
